---- MODULE Spec2Model ----
(***************************************************************************)
(* P2P Downloader: the download registry, the status normalizer, the       *)
(* poller and the WebSocket broadcast hub of the two backends,             *)
(* backend/main.py (libtorrent, "lt") and backend/main_qbit.py             *)
(* (qBittorrent API with its built-in MockClient, "qbit").                 *)
(*                                                                         *)
(* Both programs are single-threaded asyncio programs: code between two    *)
(* awaits runs atomically.  One action is one such atomic stretch.         *)
(*                                                                         *)
(* Units: byte counts of the mock engine are kept in units of 1,000,000    *)
(* bytes (MockSize 1000 is the source's 1000000000) so that products stay  *)
(* within TLC's integers; the mock's progress counter, which moves in      *)
(* steps of 0.5, is kept in half units (200 is the source's 100); the      *)
(* libtorrent progress fraction (a float in [0, 1]) is kept in hundredths. *)
(***************************************************************************)
EXTENDS Integers, Sequences, FiniteSets, TLC

\* ------------------------------------------------------------- bounds
MaxIds == 3            \* download ids (uuid4 values) issued in one run
MaxEntries == 2        \* registry entries held at the same time
NumSockets == 3        \* WebSocket connections accepted in one run
TotalWanted == 4       \* total_wanted of every libtorrent job of the run
Burst == 100           \* iterations of simulate_progress run by one step

\* ---------------------------------------------------- program constants
MockSize == 1000       \* MockTorrent.size, in units of 1,000,000 bytes
MockEta == 3600        \* MockTorrent.eta at construction
MockBaseSpeed == 500000
MockSpeedModulus == 500000
MockUpSpeed == 100000
MockProgressMax == 200 \* "while self.progress < 100", in half units
HashName == 7          \* hash(self.name): one value of the process's hash

DOWNLOAD_DIR == "downloads"
Backends == {"lt", "qbit"}
Magnets == {"M1", "M2"}
BadMagnet == "not-a-magnet"
SavePaths == {"", "custom"}     \* request.save_path: "" stands for None/empty
Sockets == 1..NumSockets

None == <<>>
Some(x) == <<x>>

VARIABLES
    backend,             \* which program runs: "lt" or "qbit"
    available,           \* lt: "lt and session"; qbit: initialize_qbittorrent()
    active_downloads,    \* handle_id -> [ref, info]
    engine,              \* live engine jobs: ref -> job
    next_ref,            \* next handle / MockClient.torrent_counter
    next_id,             \* next fresh uuid
    active_connections,  \* ConnectionManager.active_connections (a list)
    ws,                  \* socket -> "new" | "open" | "gone" | "closed"
    poller,              \* the update_torrent_status task
    hist,                \* history of the current / last broadcast
    lastOp               \* history: the last handler that ran

vars == <<backend, available, active_downloads, engine, next_ref, next_id,
          active_connections, ws, poller, hist, lastOp>>

\* ------------------------------------------------------------ helpers
RECURSIVE SetToSeq(_)
\* the elements of a set of integers in increasing order
SetToSeq(S) ==
    IF S = {} THEN <<>>
    ELSE LET m == CHOOSE x \in S : \A y \in S : x <= y
         IN <<m>> \o SetToSeq(S \ {m})

Range(s) == {s[i] : i \in 1..Len(s)}

\* list.remove(x): drops the first occurrence
Remove(s, x) ==
    LET i == CHOOSE k \in 1..Len(s) : s[k] = x /\ \A j \in 1..(k-1) : s[j] # x
    IN SubSeq(s, 1, i-1) \o SubSeq(s, i+1, Len(s))

\* dict without one key
Without(f, k) == [x \in (DOMAIN f) \ {k} |-> f[x]]

\* dict with one key set
With(f, k, v) == [x \in (DOMAIN f) \cup {k} |-> IF x = k THEN v ELSE f[x]]

\* the snapshot start_download stores for a new entry
InitialInfo(handle_id, save_path) ==
    [id |-> handle_id, name |-> "Fetching Metadata...", status |-> "metadata",
     progress |-> 0, download_speed |-> 0, upload_speed |-> 0, num_peers |-> 0,
     total_size |-> 0, downloaded |-> 0, remaining_time |-> None,
     save_path |-> save_path]

\* ------------------------------------------- libtorrent engine (external)
\* torrent_status values a libtorrent job may report (the inputs of the
\* normalizer); is_seeding is libtorrent's "state = seeding".
LtStatus(has_md, state, progress, rate, done, upload) ==
    [has_metadata |-> has_md, state |-> state, progress |-> progress,
     download_rate |-> rate, upload_rate |-> 0, num_peers |-> 1,
     total_wanted |-> TotalWanted, total_wanted_done |-> done,
     all_time_upload |-> upload, is_seeding |-> (state = "seeding")]

LtNoMetadata == LtStatus(FALSE, "downloading_metadata", 0, 0, 0, 0)

LtStatusSpace ==
    { LtNoMetadata,
      LtStatus(TRUE, "downloading", 50, 1, TotalWanted \div 2, 0),
      LtStatus(TRUE, "downloading", 50, 0, TotalWanted \div 2, 0),
      LtStatus(TRUE, "allocating", 0, 0, 0, 0),
      LtStatus(TRUE, "checking_files", 0, 0, 0, 0),
      LtStatus(TRUE, "checking_resume_data", 0, 0, 0, 0),
      LtStatus(TRUE, "finished", 100, 0, TotalWanted, 2 * TotalWanted + 1),
      LtStatus(TRUE, "seeding", 100, 0, TotalWanted, 2 * TotalWanted),
      LtStatus(TRUE, "seeding", 100, 0, TotalWanted, 2 * TotalWanted + 1) }

\* the statuses the registry is checked with: no metadata yet, half done,
\* seeding with upload exactly at and just over twice the total size
LtCutoffStatuses ==
    { s \in LtStatusSpace :
        \/ ~s.has_metadata
        \/ s.state = "downloading" /\ s.download_rate > 0
        \/ s.state = "seeding" }

\* session.add_torrent(params): a magnet that names a torrent already in the
\* session yields the handle of that torrent (libtorrent's default, the
\* duplicate_is_error flag not being set); otherwise a new job and handle.
LtExisting(eng, magnet) == {r \in DOMAIN eng : eng[r].magnet = magnet}

LtAddTorrent(eng, ref, magnet, save_path) ==
    IF LtExisting(eng, magnet) # {}
    THEN [handle |-> CHOOSE r \in LtExisting(eng, magnet) : TRUE, eng |-> eng]
    ELSE [handle |-> ref,
          eng |-> With(eng, ref, [magnet |-> magnet, name |-> magnet,
                                  save_path |-> save_path, paused |-> FALSE,
                                  st |-> LtNoMetadata])]

\* handle.is_valid()
IsValid(eng, handle) == handle \in DOMAIN eng

\* the state_str table of get_download_info
LtStateStr(state) ==
    CASE state = "seeding" -> "seeding"
      [] state = "downloading" -> "downloading"
      [] state = "finished" -> "finished"
      [] state = "checking_files" -> "checking"
      [] state = "checking_resume_data" -> "checking resume"
      [] OTHER -> "unknown"

\* "remaining": None unless download_rate > 0
LtRemaining(status) ==
    IF status.download_rate > 0
    THEN Some((status.total_wanted - status.total_wanted_done)
              \div status.download_rate)
    ELSE None

\* status.progress * 100, the fraction being kept in hundredths
LtProgress(status) == (status.progress * 100) \div 100

\* get_download_info of backend/main.py: None (<<>>) or <<info>>
LtGetDownloadInfo(handle_id, handle, eng) ==
    IF ~IsValid(eng, handle) THEN None
    ELSE LET status == eng[handle].st IN
         IF ~status.has_metadata
         THEN Some(InitialInfo(handle_id, DOWNLOAD_DIR))
         ELSE Some([id |-> handle_id,
                    name |-> eng[handle].name,
                    status |-> LtStateStr(status.state),
                    progress |-> LtProgress(status),
                    download_speed |-> status.download_rate,
                    upload_speed |-> status.upload_rate,
                    num_peers |-> status.num_peers,
                    total_size |-> status.total_wanted,
                    downloaded |-> status.total_wanted_done,
                    remaining_time |-> LtRemaining(status),
                    save_path |-> eng[handle].save_path])

\* the seeding cutoff of update_torrent_status
SeededEnough(status) ==
    status.is_seeding /\ status.all_time_upload > 2 * status.total_wanted

\* --------------------------------------------- qBittorrent MockClient
\* MockTorrent.__init__ (with MockStateEnum.__init__)
MockTorrent(hash_value) ==
    [hash |-> hash_value, name |-> "Mock Torrent", progress |-> 0,
     dlspeed |-> 0, upspeed |-> 0, num_leechs |-> 0, num_seeds |-> 0,
     size |-> MockSize, eta |-> MockEta, save_path |-> DOWNLOAD_DIR,
     is_downloading |-> TRUE, is_uploading |-> FALSE, is_complete |-> FALSE,
     is_checking |-> FALSE, is_paused |-> FALSE,
     task |-> "running"]        \* the simulate_progress task it creates

\* MockClient.torrents_add: the counter names the hash, then is incremented
\* and names the torrent
MockTorrentsAdd(eng, counter, save_path) ==
    [hash |-> counter,
     eng |-> With(eng, counter,
                  [MockTorrent(counter) EXCEPT
                     !.name = "Mock Torrent " \o ToString(counter + 1),
                     !.save_path = IF save_path # "" THEN save_path
                                   ELSE DOWNLOAD_DIR])]

\* MockClient.torrents_info(torrent_hashes=h)[0]
MockTorrentsInfo(eng, h) ==
    IF h \in DOMAIN eng THEN eng[h] ELSE MockTorrent(0)

\* one iteration of the body of simulate_progress's loop
MockIterate(t) ==
    IF t.is_paused THEN t
    ELSE [t EXCEPT !.progress = t.progress + 1,
                   !.dlspeed = MockBaseSpeed + (HashName % MockSpeedModulus),
                   !.num_seeds = 5 + (HashName % 10),
                   !.num_leechs = 3 + (HashName % 7),
                   !.eta = ((MockProgressMax - (t.progress + 1)) * 36) \div 2]

\* the statements after the loop of simulate_progress
MockComplete(t) ==
    [t EXCEPT !.is_downloading = FALSE, !.is_complete = TRUE,
              !.is_uploading = TRUE, !.dlspeed = 0, !.upspeed = MockUpSpeed,
              !.task = "done"]

RECURSIVE MockRun(_, _)
\* up to n iterations of "while self.progress < 100", then the completion
\* statements if the loop has ended
MockRun(t, n) ==
    IF t.progress >= MockProgressMax THEN MockComplete(t)
    ELSE IF n = 0 THEN t
    ELSE MockRun(MockIterate(t), n - 1)

\* the state_str chain of get_download_info of backend/main_qbit.py
QbitStateStr(t) ==
    IF t.is_downloading THEN "downloading"
    ELSE IF t.is_uploading THEN "seeding"
    ELSE IF t.is_complete THEN "finished"
    ELSE IF t.is_checking THEN "checking"
    ELSE IF t.is_paused THEN "paused"
    ELSE "unknown"

\* "remaining = torrent.eta if torrent.eta > 0 else None"
QbitRemaining(t) == IF t.eta > 0 THEN Some(t.eta) ELSE None

\* torrent.progress * 100, the counter being kept in half units
QbitProgress(t) == (t.progress * 100) \div 2

\* int(torrent.size * torrent.progress / 100)
QbitDownloaded(t) == (t.size * t.progress) \div (2 * 100)

\* get_download_info of backend/main_qbit.py; `raises` is whether the engine
\* query throws, which the function's except clause turns into None
QbitGetDownloadInfo(handle_id, torrent_hash, eng, raises) ==
    IF raises THEN None
    ELSE LET torrent == MockTorrentsInfo(eng, torrent_hash) IN
         Some([id |-> handle_id,
               name |-> torrent.name,
               status |-> QbitStateStr(torrent),
               progress |-> QbitProgress(torrent),
               download_speed |-> torrent.dlspeed,
               upload_speed |-> torrent.upspeed,
               num_peers |-> torrent.num_leechs + torrent.num_seeds,
               total_size |-> torrent.size,
               downloaded |-> QbitDownloaded(torrent),
               remaining_time |-> QbitRemaining(torrent),
               save_path |-> torrent.save_path])

\* ------------------------------------------------------------- poller
\* One pass of update_torrent_status over list(active_downloads.items()),
\* in dict (insertion) order; ids are issued in increasing order.  `faulty`
\* is the set of engine jobs whose status query throws during this pass.
\* The result is the registry and engine left behind, the batch, whether an
\* exception left the pass, the ids skipped and the engine calls made.
Pass0(reg, eng) ==
    [reg |-> reg, eng |-> eng, updates |-> <<>>, raised |-> FALSE,
     skipped |-> {}, calls |-> <<>>]

\* mutant: every removal asks for the files to be deleted
RemoveCall_DeletesFiles(ref, delete_files) ==
    [fn |-> "remove", ref |-> ref, delete_files |-> TRUE]

RemoveCall(ref, delete_files) ==
    [fn |-> "remove", ref |-> ref, delete_files |-> delete_files]

\* the body of the for loop of backend/main.py for an item whose handle is
\* valid: handle.status() may throw; otherwise the snapshot is stored and
\* batched and the seeding cutoff applied
LtRefresh(acc, handle_id, data, faulty) ==
    LET handle == data.ref IN
    IF handle \in faulty
    THEN [acc EXCEPT !.raised = TRUE]
    ELSE LET info == LtGetDownloadInfo(handle_id, handle, acc.eng)[1]
             stored == [acc EXCEPT
                          !.reg = With(@, handle_id, [data EXCEPT !.info = info]),
                          !.updates = Append(@, info)]
         IN IF available /\ SeededEnough(acc.eng[handle].st)
            THEN [stored EXCEPT
                    !.eng = Without(@, handle),
                    !.reg = Without(@, handle_id),
                    !.calls = Append(@, RemoveCall(handle, FALSE))]
            ELSE stored

\* mutant: an entry whose handle is invalid is pruned from the registry
LtPassItem_Prunes(acc, handle_id, data, faulty) ==
    IF ~IsValid(acc.eng, data.ref)
    THEN [acc EXCEPT !.skipped = @ \cup {handle_id},
                     !.reg = Without(@, handle_id)]
    ELSE LtRefresh(acc, handle_id, data, faulty)

\* the body of the for loop of backend/main.py for one captured item
LtPassItem(acc, handle_id, data, faulty) ==
    IF ~IsValid(acc.eng, data.ref)
    THEN [acc EXCEPT !.skipped = @ \cup {handle_id}]
    ELSE LtRefresh(acc, handle_id, data, faulty)

\* the body of the for loop of backend/main_qbit.py for one captured item
QbitPassItem(acc, handle_id, data, faulty) ==
    LET got == QbitGetDownloadInfo(handle_id, data.ref, acc.eng,
                                   data.ref \in faulty)
    IN IF got = None
       THEN [acc EXCEPT !.skipped = @ \cup {handle_id}]
       ELSE [acc EXCEPT
               !.reg = With(@, handle_id, [data EXCEPT !.info = got[1]]),
               !.updates = Append(@, got[1])]

PassItem(acc, handle_id, data, faulty) ==
    IF backend = "lt" THEN LtPassItem(acc, handle_id, data, faulty)
    ELSE QbitPassItem(acc, handle_id, data, faulty)

RECURSIVE PassLoop(_, _, _, _)
\* `items` is the list captured at the start of the pass; an exception
\* leaving the body ends the loop
PassLoop(acc, items, captured, faulty) ==
    IF items = <<>> \/ acc.raised THEN acc
    ELSE PassLoop(PassItem(acc, Head(items), captured[Head(items)], faulty),
                  Tail(items), captured, faulty)

Pass(reg, eng, faulty) ==
    PassLoop(Pass0(reg, eng), SetToSeq(DOMAIN reg), reg, faulty)

\* -------------------------------------------------------- history records
\* lastOp: the handler (or tick) that ran last, the id it was given, its
\* HTTP status, the engine calls it made, for a tick the ids it captured,
\* the ids whose normalization failed and the batch it built, and for
\* GET /api/downloads the list it returned
NoOp ==
    [op |-> "none", id |-> 0, code |-> 0, calls |-> <<>>,
     captured |-> {}, skipped |-> {}, batch |-> <<>>, body |-> <<>>]

Op(op, id, code, calls) ==
    [NoOp EXCEPT !.op = op, !.id = id, !.code = code, !.calls = calls]

\* hist, of the current (or last) broadcast: the sockets in the list and
\* open when it began, those of them never closed since, the batches each
\* socket was sent, and the sockets whose send failed
NoHist ==
    [start |-> {}, stable |-> {}, got |-> [w \in Sockets |-> <<>>],
     failed |-> {}]

\* ------------------------------------------------------------- state
\* poller: where update_torrent_status stands ("sleep", "sending", "dead",
\* "off"), the message it is broadcasting, the socket it is sending to and
\* the list iterator's next position
Sleeping == [pc |-> "sleep", msg |-> <<>>, cur |-> 0, nxt |-> 0]

Init ==
    /\ backend \in Backends
    /\ available \in BOOLEAN
    /\ active_downloads = <<>>
    /\ engine = <<>>
    /\ next_ref = 0
    /\ next_id = 1
    /\ active_connections = <<>>
    /\ ws = [w \in Sockets |-> "new"]
    \* startup_event: main.py always starts the poller, main_qbit.py only
    \* when initialize_qbittorrent() succeeded
    /\ poller = IF backend = "qbit" /\ ~available
                THEN [Sleeping EXCEPT !.pc = "off"] ELSE Sleeping
    /\ hist = NoHist
    /\ lastOp = NoOp

hub == <<active_connections, ws, poller, hist>>
config == <<backend, available>>

\* ------------------------------------------------------- control surface
\* start_download of backend/main.py.  The 503 raised when libtorrent is
\* missing is an HTTPException raised inside the try block, so the handler's
\* "except Exception" turns it into a 400, as it does a malformed magnet.
LtStartDownload(magnet, save_path) ==
    IF ~available \/ magnet = BadMagnet
    THEN /\ lastOp' = Op("start", 0, 400, <<>>)
         /\ UNCHANGED <<active_downloads, engine, next_ref, next_id>>
    ELSE LET path == IF save_path # "" THEN save_path ELSE DOWNLOAD_DIR
             added == LtAddTorrent(engine, next_ref, magnet, path)
         IN /\ engine' = added.eng
            /\ next_ref' = IF added.handle = next_ref THEN next_ref + 1
                           ELSE next_ref
            /\ active_downloads' =
                 With(active_downloads, next_id,
                      [ref |-> added.handle, info |-> InitialInfo(next_id, path)])
            /\ next_id' = next_id + 1
            /\ lastOp' = Op("start", next_id, 200, <<>>)

\* start_download of backend/main_qbit.py: with no client (qbt_client is
\* None) the call throws and the handler answers 400; MockClient accepts
\* any link
QbitStartDownload(magnet, save_path) ==
    IF ~available
    THEN /\ lastOp' = Op("start", 0, 400, <<>>)
         /\ UNCHANGED <<active_downloads, engine, next_ref, next_id>>
    ELSE LET path == IF save_path # "" THEN save_path ELSE DOWNLOAD_DIR
             added == MockTorrentsAdd(engine, next_ref, path)
         IN /\ engine' = added.eng
            /\ next_ref' = next_ref + 1
            /\ active_downloads' =
                 With(active_downloads, next_id,
                      [ref |-> added.hash, info |-> InitialInfo(next_id, path)])
            /\ next_id' = next_id + 1
            /\ lastOp' = Op("start", next_id, 200, <<>>)

StartDownload(magnet, save_path) ==
    /\ next_id <= MaxIds
    /\ Cardinality(DOMAIN active_downloads) < MaxEntries
    /\ IF backend = "lt" THEN LtStartDownload(magnet, save_path)
       ELSE QbitStartDownload(magnet, save_path)
    /\ UNCHANGED <<config, hub>>

\* mutant: the job is removed from the engine but the entry stays in the
\* registry
LtCancelKnown_KeepsEntry(download_id) ==
    LET handle == active_downloads[download_id].ref IN
    /\ engine' = IF handle \in DOMAIN engine THEN Without(engine, handle)
                 ELSE engine
    /\ UNCHANGED active_downloads
    /\ lastOp' = Op("cancel", download_id, 200, <<RemoveCall(handle, TRUE)>>)

\* cancel_download of backend/main.py for an id of the registry;
\* session.remove_torrent throws for a handle that is no longer valid, which
\* the handler does not catch (500)
LtCancelKnown(download_id) ==
    IF ~available
    THEN /\ lastOp' = Op("cancel", download_id, 503, <<>>)
         /\ UNCHANGED <<active_downloads, engine>>
    ELSE LET handle == active_downloads[download_id].ref IN
         IF ~IsValid(engine, handle)
         THEN /\ lastOp' = Op("cancel", download_id, 500, <<>>)
              /\ UNCHANGED <<active_downloads, engine>>
         ELSE /\ engine' = Without(engine, handle)
              /\ active_downloads' = Without(active_downloads, download_id)
              /\ lastOp' = Op("cancel", download_id, 200,
                              <<RemoveCall(handle, TRUE)>>)

\* mutant: the membership test is lost and an unknown id is answered 200
LtCancelDownload_NoCheck(download_id) ==
    IF download_id \notin DOMAIN active_downloads
    THEN /\ lastOp' = Op("cancel", download_id, 200, <<>>)
         /\ UNCHANGED <<active_downloads, engine>>
    ELSE LtCancelKnown(download_id)

\* cancel_download of backend/main.py
LtCancelDownload(download_id) ==
    IF download_id \notin DOMAIN active_downloads
    THEN /\ lastOp' = Op("cancel", download_id, 404, <<>>)
         /\ UNCHANGED <<active_downloads, engine>>
    ELSE LtCancelKnown(download_id)

\* cancel_download of backend/main_qbit.py, with MockClient.torrents_delete
QbitCancelDownload(download_id) ==
    IF download_id \notin DOMAIN active_downloads
    THEN /\ lastOp' = Op("cancel", download_id, 404, <<>>)
         /\ UNCHANGED <<active_downloads, engine>>
    ELSE LET torrent_hash == active_downloads[download_id].ref IN
         /\ engine' = IF torrent_hash \in DOMAIN engine
                      THEN Without(engine, torrent_hash) ELSE engine
         /\ active_downloads' = Without(active_downloads, download_id)
         /\ lastOp' = Op("cancel", download_id, 200,
                         <<RemoveCall(torrent_hash, TRUE)>>)

CancelDownload(download_id) ==
    /\ IF backend = "lt" THEN LtCancelDownload(download_id)
       ELSE QbitCancelDownload(download_id)
    /\ UNCHANGED <<config, next_ref, next_id, hub>>

\* MockClient.torrents_pause / torrents_resume
MockPause(t) == [t EXCEPT !.is_paused = TRUE, !.is_downloading = FALSE]
MockResume(t) == [t EXCEPT !.is_paused = FALSE, !.is_downloading = TRUE]

\* mutant: pause and resume also write the new status into the cached
\* snapshot
PauseResume_WritesCache(op, download_id) ==
    /\ download_id \in DOMAIN active_downloads
    /\ active_downloads' =
         [active_downloads EXCEPT
            ![download_id].info.status =
               IF op = "pause" THEN "paused" ELSE "downloading"]
    /\ lastOp' = Op(op, download_id, 200,
                    <<[fn |-> op, ref |-> active_downloads[download_id].ref,
                       delete_files |-> FALSE]>>)
    /\ UNCHANGED <<config, engine, next_ref, next_id, hub>>

\* pause_download / resume_download of either backend; handle.pause() and
\* handle.resume() throw for a handle that is no longer valid (500)
PauseResume(op, download_id) ==
    /\ IF download_id \notin DOMAIN active_downloads
       THEN /\ lastOp' = Op(op, download_id, 404, <<>>)
            /\ UNCHANGED engine
       ELSE LET ref == active_downloads[download_id].ref
                call == <<[fn |-> op, ref |-> ref, delete_files |-> FALSE]>>
            IN IF backend = "lt"
               THEN IF ~IsValid(engine, ref)
                    THEN /\ lastOp' = Op(op, download_id, 500, call)
                         /\ UNCHANGED engine
                    ELSE /\ engine' = [engine EXCEPT
                                         ![ref].paused = (op = "pause")]
                         /\ lastOp' = Op(op, download_id, 200, call)
               ELSE /\ engine' =
                         IF ref \in DOMAIN engine
                         THEN [engine EXCEPT
                                 ![ref] = IF op = "pause" THEN MockPause(@)
                                          ELSE MockResume(@)]
                         ELSE engine
                    /\ lastOp' = Op(op, download_id, 200, call)
    /\ UNCHANGED <<config, active_downloads, next_ref, next_id, hub>>

PauseDownload(download_id) == PauseResume("pause", download_id)

ResumeDownload(download_id) == PauseResume("resume", download_id)

\* mutant: GET refreshes each snapshot from the engine
GetDownloads_Refreshed ==
    [i \in 1..Cardinality(DOMAIN active_downloads) |->
       LET id == SetToSeq(DOMAIN active_downloads)[i]
           got == IF backend = "lt"
                  THEN LtGetDownloadInfo(id, active_downloads[id].ref, engine)
                  ELSE QbitGetDownloadInfo(id, active_downloads[id].ref,
                                           engine, FALSE)
       IN IF got = None THEN active_downloads[id].info ELSE got[1]]

\* get_downloads: the cached snapshots, in dict order
GetDownloads == [i \in 1..Cardinality(DOMAIN active_downloads) |->
                   active_downloads[SetToSeq(DOMAIN active_downloads)[i]].info]

\* the handler of GET /api/downloads
GetDownloadsRequest ==
    /\ lastOp' = [Op("get", 0, 200, <<>>) EXCEPT !.body = GetDownloads]
    /\ UNCHANGED <<config, active_downloads, engine, next_ref, next_id, hub>>

\* ------------------------------------------------------------- engines
\* the libtorrent session works on a job: its status changes (metadata,
\* once fetched, stays)
LtEngineStep(handle, status) ==
    /\ backend = "lt"
    /\ handle \in DOMAIN engine
    /\ status # engine[handle].st
    /\ engine[handle].st.has_metadata => status.has_metadata
    /\ engine' = [engine EXCEPT ![handle].st = status]
    /\ lastOp' = NoOp
    /\ UNCHANGED <<config, active_downloads, next_ref, next_id, hub>>

\* the simulate_progress task of a MockTorrent runs Burst iterations
SimulateProgress(hash) ==
    /\ backend = "qbit"
    /\ hash \in DOMAIN engine
    /\ engine[hash].task = "running"
    /\ ~engine[hash].is_paused
    /\ engine' = [engine EXCEPT ![hash] = MockRun(@, Burst)]
    /\ lastOp' = NoOp
    /\ UNCHANGED <<config, active_downloads, next_ref, next_id, hub>>

\* ---------------------------------------------------------- broadcast hub
\* ConnectionManager.broadcast iterates the live list: the list iterator
\* keeps the position of the next element (nxt) and the coroutine is
\* suspended in send_json to the element it fetched last (cur).
BeginBroadcast(conns, message) ==
    IF Len(conns) = 0 THEN Sleeping
    ELSE [pc |-> "sending", msg |-> message, cur |-> conns[1], nxt |-> 2]

\* after a send has returned or thrown: the next element, or the sleep
NextSend(conns, message, nxt) ==
    IF nxt <= Len(conns)
    THEN [pc |-> "sending", msg |-> message, cur |-> conns[nxt],
          nxt |-> nxt + 1]
    ELSE Sleeping

\* mutant: the poller broadcasts its batch even when it is empty
AfterPass_SendsEmpty(pass, conns) ==
    IF pass.raised
    THEN IF backend = "lt" THEN [Sleeping EXCEPT !.pc = "dead"] ELSE Sleeping
    ELSE BeginBroadcast(conns, pass.updates)

\* one tick of update_torrent_status up to its first await: the pass, then
\* the sleep, or the first send of the broadcast, or (main.py has no
\* try/except in its loop) the end of the task
AfterPass(pass, conns) ==
    IF pass.raised
    THEN IF backend = "lt" THEN [Sleeping EXCEPT !.pc = "dead"] ELSE Sleeping
    ELSE IF pass.updates = <<>> THEN Sleeping
    ELSE BeginBroadcast(conns, pass.updates)

Tick(faulty) ==
    /\ poller.pc = "sleep"
    /\ LET pass == Pass(active_downloads, engine, faulty)
           listening == IF pass.raised \/ pass.updates = <<>> THEN {}
                        ELSE {w \in Range(active_connections) : ws[w] = "open"}
       IN /\ active_downloads' = pass.reg
          /\ engine' = pass.eng
          /\ poller' = AfterPass(pass, active_connections)
          /\ lastOp' = [op |-> "tick", id |-> 0,
                        code |-> IF pass.raised THEN 500 ELSE 0,
                        calls |-> pass.calls,
                        captured |-> DOMAIN active_downloads,
                        skipped |-> pass.skipped,
                        batch |-> pass.updates,
                        body |-> <<>>]
          /\ hist' = [NoHist EXCEPT !.start = listening, !.stable = listening]
    /\ UNCHANGED <<config, next_ref, next_id, active_connections, ws>>

\* the send the broadcast is suspended in completes: delivered to an open
\* socket, an exception (logged) for a socket whose peer has gone
SendOutcome(h, state, w, message) ==
    IF state = "open"
    THEN [h EXCEPT !.got[w] = Append(@, message)]
    ELSE [h EXCEPT !.failed = @ \cup {w}]

SendReturns ==
    /\ poller.pc = "sending"
    /\ hist' = SendOutcome(hist, ws[poller.cur], poller.cur, poller.msg)
    /\ poller' = NextSend(active_connections, poller.msg, poller.nxt)
    /\ lastOp' = Op("send", 0, 0, <<>>)
    /\ UNCHANGED <<config, active_downloads, engine, next_ref, next_id,
                   active_connections, ws>>

\* websocket_endpoint: manager.connect
Connect(w) ==
    /\ ws[w] = "new"
    /\ ws' = [ws EXCEPT ![w] = "open"]
    /\ active_connections' = Append(active_connections, w)
    /\ lastOp' = NoOp
    /\ UNCHANGED <<config, active_downloads, engine, next_ref, next_id,
                   poller, hist>>

\* the client of an open socket goes away
PeerCloses(w) ==
    /\ ws[w] = "open"
    /\ ws' = [ws EXCEPT ![w] = "gone"]
    /\ hist' = [hist EXCEPT !.stable = @ \ {w}]
    /\ lastOp' = NoOp
    /\ UNCHANGED <<config, active_downloads, engine, next_ref, next_id,
                   active_connections, poller>>

\* ConnectionManager.disconnect
Disconnected(conns, w) == IF w \in Range(conns) THEN Remove(conns, w) ELSE conns

\* websocket_endpoint: receive_text raises WebSocketDisconnect and the
\* handler calls manager.disconnect
Disconnect(w) ==
    /\ ws[w] = "gone"
    /\ ws' = [ws EXCEPT ![w] = "closed"]
    /\ active_connections' = Disconnected(active_connections, w)
    /\ lastOp' = NoOp
    /\ UNCHANGED <<config, active_downloads, engine, next_ref, next_id,
                   poller, hist>>

\* --------------------------------------------------------- specification
Ids == 1..MaxIds

Next ==
    \/ \E m \in Magnets \cup {BadMagnet}, p \in SavePaths : StartDownload(m, p)
    \/ \E i \in Ids : CancelDownload(i)
    \/ \E i \in Ids : PauseDownload(i)
    \/ \E i \in Ids : ResumeDownload(i)
    \/ GetDownloadsRequest
    \/ \E h \in DOMAIN engine, s \in LtStatusSpace : LtEngineStep(h, s)
    \/ \E h \in DOMAIN engine : SimulateProgress(h)
    \/ \E f \in SUBSET (DOMAIN engine) : Tick(f)
    \/ SendReturns
    \/ \E w \in Sockets : Connect(w)
    \/ \E w \in Sockets : PeerCloses(w)
    \/ \E w \in Sockets : Disconnect(w)

Spec == Init /\ [][Next]_vars

\* The registry, the engine and the poller's pass do not read the hub's
\* state (the connection list, the sockets), and the hub reads of a tick
\* only its batch.  The registry is therefore checked with no socket ever
\* connecting, default save paths and the statuses the cutoff tells apart,
\* and the hub with one download.
StartRequests == {<<"M1", "">>, <<"M2", "">>, <<BadMagnet, "">>}

NextRegistry ==
    \/ \E r \in StartRequests : StartDownload(r[1], r[2])
    \/ \E i \in Ids : CancelDownload(i)
    \/ \E h \in DOMAIN engine, s \in LtCutoffStatuses : LtEngineStep(h, s)
    \/ \E h \in DOMAIN engine : SimulateProgress(h)
    \/ \E f \in SUBSET (DOMAIN engine) : Tick(f)

SpecRegistry == Init /\ [][NextRegistry]_vars

NextHub ==
    \/ active_downloads = <<>> /\ StartDownload("M1", "")
    \/ Tick({})
    \/ SendReturns
    \/ \E w \in Sockets : Connect(w)
    \/ \E w \in Sockets : PeerCloses(w)
    \/ \E w \in Sockets : Disconnect(w)

InitHub == Init /\ available

SpecHub == InitHub /\ [][NextHub]_vars

\* The control surface (start with or without a save path, pause, resume,
\* GET) and the poller, with every status the engines report, on one
\* download at a time.
ControlRequests == {<<"M1", "">>, <<"M1", "custom">>}

NextControl ==
    \/ \E r \in ControlRequests :
          active_downloads = <<>> /\ StartDownload(r[1], r[2])
    \/ \E i \in Ids : PauseDownload(i)
    \/ \E i \in Ids : ResumeDownload(i)
    \/ GetDownloadsRequest
    \/ \E h \in DOMAIN engine, s \in LtStatusSpace : LtEngineStep(h, s)
    \/ \E h \in DOMAIN engine : SimulateProgress(h)
    \/ Tick({})

SpecControl == Init /\ [][NextControl]_vars

\* The registry handlers interleaved with a broadcast: one subscriber stays
\* connected, so that a tick with a batch is suspended in its send while
\* start and cancel requests are served.  A libtorrent job gets its
\* metadata and is half done; of the mock's jobs the first one progresses.
LtHalfDone == LtStatus(TRUE, "downloading", 50, 1, TotalWanted \div 2, 0)

NextConcurrent ==
    \/ \E r \in StartRequests : StartDownload(r[1], r[2])
    \/ \E i \in Ids : CancelDownload(i)
    \/ \E h \in DOMAIN engine : LtEngineStep(h, LtHalfDone)
    \/ SimulateProgress(0)
    \/ Tick({})
    \/ SendReturns
    \/ Connect(1)

SpecConcurrent == InitHub /\ [][NextConcurrent]_vars

\* The hub with a subscriber that may stall: the poller's sleep always ends
\* and its loop goes on (the event loop runs a task that is ready), while
\* nothing makes a send_json to a client that has stopped reading return.
SpecStalled == InitHub /\ [][NextHub]_vars /\ WF_vars(Tick({}))

\* The two ways a job leaves the engine, on one download at a time: the
\* cancel request and the poller's seeding cutoff.
NextRemoval ==
    \/ \E m \in Magnets : active_downloads = <<>> /\ StartDownload(m, "")
    \/ \E i \in Ids : CancelDownload(i)
    \/ \E h \in DOMAIN engine, s \in LtCutoffStatuses : LtEngineStep(h, s)
    \/ \E h \in DOMAIN engine : SimulateProgress(h)
    \/ \E f \in SUBSET (DOMAIN engine) : Tick(f)

SpecRemoval == Init /\ [][NextRemoval]_vars

\* =================================================================== claims
\* the snapshot the normalizer of the running backend yields for an entry
\* whose engine job answers
Normalized(handle_id, ref, eng) ==
    IF backend = "lt" THEN LtGetDownloadInfo(handle_id, ref, eng)
    ELSE QbitGetDownloadInfo(handle_id, ref, eng, FALSE)

BatchIds(batch) == {batch[k].id : k \in 1..Len(batch)}

\* C1: every entry of the registry refers to an engine job that was added
\* and has not been removed from the engine.
C1_RegistryRefsLive ==
    \A id \in DOMAIN active_downloads :
        active_downloads[id].ref \in DOMAIN engine

\* C2: a cancel for an id that is not in the registry answers 404, leaves
\* the registry (and the engine) as it was and makes no engine call.
C2_CancelUnknown ==
    [][(lastOp'.op = "cancel" /\ lastOp'.id \notin DOMAIN active_downloads)
        => /\ lastOp'.code = 404
           /\ lastOp'.calls = <<>>
           /\ active_downloads' = active_downloads
           /\ engine' = engine]_vars

\* C2 witness: an unknown id was cancelled while the registry held entries.
C2_Witness ==
    /\ lastOp.op = "cancel"
    /\ lastOp.code = 404
    /\ active_downloads # <<>>
    /\ lastOp.id < next_id

\* the seeding cutoff as the specification states it (libtorrent backend;
\* the mock engine of the other backend keeps no upload total)
CutoffDue(job) ==
    /\ job.st.has_metadata
    /\ job.st.state \in {"seeding", "finished"}
    /\ job.st.all_time_upload >= 2 * job.st.total_wanted

\* C3: an entry whose job is finished/seeding with cumulative upload >= 2 x
\* total size is removed from the registry by the next poll tick.
C3_CutoffRemoves ==
    [][(lastOp'.op = "tick" /\ lastOp'.code = 0 /\ backend = "lt")
        => \A id \in DOMAIN active_downloads :
              (/\ active_downloads[id].ref \in DOMAIN engine
               /\ CutoffDue(engine[active_downloads[id].ref]))
              => id \notin DOMAIN active_downloads']_vars

\* a broadcast has returned: the poller sleeps after its last send
BroadcastReturned == lastOp.op = "send" /\ poller.pc = "sleep"

\* C4: when the send to one subscriber fails, the same broadcast delivers the
\* batch to every other subscriber (connected throughout).
C4_OthersDelivered ==
    (BroadcastReturned /\ hist.failed # {})
        => \A w \in hist.stable \ hist.failed : Len(hist.got[w]) >= 1

\* C5: a subscriber whose delivery failed is not in active_connections when
\* the broadcast returns.
C5_FailedRemoved ==
    BroadcastReturned => hist.failed \cap Range(active_connections) = {}

\* C6: a tick in which normalization fails for some entries leaves their
\* cached snapshots as they were, and stores and batches the normalized
\* snapshot of every other captured entry.
C6_FailureSkipsOnlyThatEntry ==
    [][(lastOp'.op = "tick" /\ lastOp'.code = 0)
        => /\ lastOp'.captured = DOMAIN active_downloads
           /\ \A id \in lastOp'.skipped :
                 /\ id \in DOMAIN active_downloads'
                 /\ active_downloads'[id] = active_downloads[id]
                 /\ id \notin BatchIds(lastOp'.batch)
           /\ \A id \in (DOMAIN active_downloads) \ lastOp'.skipped :
                 LET fresh == Normalized(id, active_downloads[id].ref, engine)
                 IN /\ fresh # None
                    /\ Cardinality({k \in 1..Len(lastOp'.batch) :
                                      lastOp'.batch[k] = fresh[1]}) = 1
                    /\ Cardinality({k \in 1..Len(lastOp'.batch) :
                                      lastOp'.batch[k].id = id}) = 1
                    /\ id \in DOMAIN active_downloads'
                         => active_downloads'[id].info = fresh[1]]_vars

\* C6 witness: a libtorrent tick skipped an entry whose handle is invalid and
\* refreshed another entry, whose snapshot changed.
C6_Witness ==
    /\ backend = "lt"
    /\ lastOp.op = "tick"
    /\ lastOp.code = 0
    /\ lastOp.skipped # {}
    /\ \E id \in lastOp.captured \ lastOp.skipped :
          /\ id \in DOMAIN active_downloads
          /\ active_downloads[id].info.status # "metadata"

\* C7: an error raised inside a tick never terminates the polling loop.
C7_PollerSurvives == poller.pc # "dead"

\* C8: in every snapshot, remaining_time is None whenever download_speed is 0.
C8_NoRateNoRemaining ==
    /\ \A id \in DOMAIN active_downloads :
          active_downloads[id].info.download_speed = 0
              => active_downloads[id].info.remaining_time = None
    /\ \A k \in 1..Len(lastOp.batch) :
          lastOp.batch[k].download_speed = 0
              => lastOp.batch[k].remaining_time = None

\* the engine reports the job half done
HalfDone(job) ==
    IF backend = "lt" THEN job.st.has_metadata /\ job.st.progress = 50
    ELSE 2 * job.progress = MockProgressMax

\* C9: right after a successful start on an empty registry GET /api/downloads
\* returns one entry with the new id, status "metadata" and progress 0; after
\* a completed tick in which the engine reports the job half done it reports
\* progress 50 for that id.
C9_StartThenHalf ==
    /\ (lastOp.op = "start" /\ lastOp.code = 200
          /\ Cardinality(DOMAIN active_downloads) = 1)
        => /\ Len(GetDownloads) = 1
           /\ GetDownloads[1].id = lastOp.id
           /\ GetDownloads[1].status = "metadata"
           /\ GetDownloads[1].progress = 0
    /\ (lastOp.op = "tick" /\ lastOp.code = 0)
        => \A id \in (DOMAIN active_downloads) \ lastOp.skipped :
              (/\ active_downloads[id].ref \in DOMAIN engine
               /\ HalfDone(engine[active_downloads[id].ref]))
              => \E k \in 1..Len(GetDownloads) :
                    /\ GetDownloads[k].id = id
                    /\ GetDownloads[k].progress = 50

\* C10: two subscribers connected for the whole of a tick's broadcast each
\* receive exactly one message, and the two carry the same batch.
C10_SameBatchOnce ==
    BroadcastReturned
        => \A w1 \in hist.stable : \A w2 \in hist.stable \ {w1} :
              /\ Len(hist.got[w1]) = 1
              /\ hist.got[w1] = hist.got[w2]

\* C11: GET /api/downloads makes no engine call, changes neither registry nor
\* engine and returns, for each registered id, the cached snapshot; a cached
\* snapshot changes only in a poll tick, so what GET returns is what the most
\* recent tick (or the start) stored, whatever the engine reports since.
C11_GetIsCachedRead ==
    [][/\ lastOp'.op = "get"
          => /\ lastOp'.calls = <<>>
             /\ active_downloads' = active_downloads
             /\ engine' = engine
             /\ Len(lastOp'.body) = Cardinality(DOMAIN active_downloads)
             /\ \A id \in DOMAIN active_downloads :
                   Cardinality({k \in 1..Len(lastOp'.body) :
                        lastOp'.body[k] = active_downloads[id].info}) = 1
       /\ \A id \in (DOMAIN active_downloads) \cap (DOMAIN active_downloads') :
             active_downloads'[id].info # active_downloads[id].info
                 => lastOp'.op = "tick"]_vars

\* C11 witness: GET answered with a cached snapshot that is no longer what
\* the engine reports.
C11_Witness ==
    /\ lastOp.op = "get"
    /\ \E id \in DOMAIN active_downloads :
          /\ active_downloads[id].ref \in DOMAIN engine
          /\ active_downloads[id].info.status # "metadata"
          /\ Normalized(id, active_downloads[id].ref, engine)
                 # Some(active_downloads[id].info)
          /\ \E k \in 1..Len(lastOp.body) :
                lastOp.body[k] = active_downloads[id].info

\* C12: pause and resume leave the registry as it is; for an unknown id they
\* answer 404 without an engine call, for a known id they call the engine's
\* pause/resume on the entry's job.
C12_PauseResumeFrame ==
    [][(lastOp'.op \in {"pause", "resume"})
        => /\ active_downloads' = active_downloads
           /\ lastOp'.id \notin DOMAIN active_downloads
                => /\ lastOp'.code = 404
                   /\ lastOp'.calls = <<>>
                   /\ engine' = engine
           /\ lastOp'.id \in DOMAIN active_downloads
                => /\ lastOp'.code # 404
                   /\ lastOp'.calls =
                        <<[fn |-> lastOp'.op,
                           ref |-> active_downloads[lastOp'.id].ref,
                           delete_files |-> FALSE]>>]_vars

\* C12 witness: a pause of a registered download whose cached snapshot says
\* "downloading" succeeded and changed the engine's job.
C12_Witness ==
    /\ lastOp.op = "pause"
    /\ lastOp.code = 200
    /\ lastOp.id \in DOMAIN active_downloads
    /\ active_downloads[lastOp.id].info.status = "downloading"
    /\ active_downloads[lastOp.id].ref \in DOMAIN engine
    /\ IF backend = "lt" THEN engine[active_downloads[lastOp.id].ref].paused
       ELSE engine[active_downloads[lastOp.id].ref].is_paused

\* C13: in the libtorrent backend a start request made while the engine is
\* not available is answered 503 and leaves the registry unchanged (empty,
\* no start having succeeded).
C13_UnavailableIs503 ==
    (backend = "lt" /\ ~available /\ lastOp.op = "start")
        => /\ lastOp.code = 503
           /\ active_downloads = <<>>

\* every snapshot a client can see: the cached ones and those of the batch
\* of the last tick
Snapshots ==
    {active_downloads[id].info : id \in DOMAIN active_downloads}
        \cup Range(lastOp.batch)

StatusEnum ==
    {"metadata", "downloading", "seeding", "finished", "checking", "paused",
     "unknown"}

\* C14: the status of every stored or broadcast snapshot is one of metadata,
\* downloading, seeding, finished, checking, paused, unknown.
C14_StatusInEnum == \A info \in Snapshots : info.status \in StatusEnum

\* C15: the progress of every stored or broadcast snapshot lies in [0, 100].
C15_ProgressInRange ==
    \A info \in Snapshots : info.progress >= 0 /\ info.progress <= 100

\* C16: while the libtorrent engine has no metadata for an entry's job, the
\* entry's snapshot has status metadata, zeroed numeric fields and the
\* save_path the job was started with.
C16_NoMetadataSnapshot ==
    \A id \in DOMAIN active_downloads :
        LET ref == active_downloads[id].ref
            info == active_downloads[id].info
        IN (backend = "lt" /\ ref \in DOMAIN engine
                /\ ~engine[ref].st.has_metadata)
           => /\ info.status = "metadata"
              /\ info.progress = 0
              /\ info.download_speed = 0
              /\ info.upload_speed = 0
              /\ info.num_peers = 0
              /\ info.total_size = 0
              /\ info.downloaded = 0
              /\ info.remaining_time = None
              /\ info.save_path = engine[ref].save_path

\* C17: whatever connects or disconnects while a broadcast is suspended in a
\* send, every subscriber in the live set from the start of the broadcast to
\* its return is sent the batch exactly once.
C17_StableSentOnce ==
    BroadcastReturned => \A w \in hist.stable : Len(hist.got[w]) = 1

\* ids already issued that are not in the registry (cancelled or removed)
Retired == (1..(next_id - 1)) \ DOMAIN active_downloads

\* C18: a successful cancel of X removes X; an id that has left the registry
\* never comes back, whatever runs in between (a tick, a send of its
\* broadcast, other requests); and a tick that starts afterwards captures
\* (queries the engine for) no such id and has none in its batch.
C18_CancelledStaysOut ==
    [][/\ (lastOp'.op = "cancel" /\ lastOp'.code = 200)
          => lastOp'.id \notin DOMAIN active_downloads'
       /\ \A id \in Retired : id \notin DOMAIN active_downloads'
       /\ lastOp'.op = "tick"
          => /\ lastOp'.captured \cap Retired = {}
             /\ BatchIds(lastOp'.batch) \cap Retired = {}]_vars

\* C18 witness: X was cancelled while the broadcast of a batch holding X's
\* snapshot was suspended in a send, another entry staying registered.
C18_Witness ==
    /\ lastOp.op = "cancel"
    /\ lastOp.code = 200
    /\ poller.pc = "sending"
    /\ lastOp.id \in BatchIds(poller.msg)
    /\ active_downloads # <<>>

\* C19: a tick hands the hub at most one batch, holding exactly one snapshot
\* for each id captured at its start whose normalization succeeded, and
\* nothing when there is none; a tick ended by an exception hands it nothing.
\* No other step starts a broadcast or changes the batch being sent, each
\* send delivers that batch, and an entry started meanwhile is not in it (it
\* is captured by the next tick).
C19_OneBatchPerTick ==
    [][/\ (lastOp'.op = "tick" /\ lastOp'.code = 0)
          => /\ lastOp'.captured = DOMAIN active_downloads
             /\ BatchIds(lastOp'.batch) = lastOp'.captured \ lastOp'.skipped
             /\ Len(lastOp'.batch) = Cardinality(BatchIds(lastOp'.batch))
             /\ lastOp'.batch = <<>> => poller'.pc = "sleep"
             /\ poller'.pc = "sending" => poller'.msg = lastOp'.batch
       /\ (lastOp'.op = "tick" /\ lastOp'.code # 0) => poller'.pc # "sending"
       /\ (lastOp'.op # "tick" /\ poller'.pc = "sending")
          => /\ poller.pc = "sending"
             /\ poller'.msg = poller.msg
       /\ lastOp'.op = "send"
          => \A w \in Sockets :
                hist'.got[w] \in {hist.got[w], Append(hist.got[w], poller.msg)}
       /\ (lastOp'.op = "start" /\ lastOp'.code = 200
              /\ poller'.pc = "sending")
          => lastOp'.id \notin BatchIds(poller'.msg)]_vars

\* C19 witness: a download was started while a broadcast was suspended in a
\* send; the batch being sent does not hold it.
C19_Witness ==
    /\ lastOp.op = "start"
    /\ lastOp.code = 200
    /\ poller.pc = "sending"
    /\ lastOp.id \in DOMAIN active_downloads
    /\ lastOp.id \notin BatchIds(poller.msg)

\* the engine holds the job paused / has completed it
JobPaused(job) == IF backend = "lt" THEN job.paused ELSE job.is_paused

JobCompleted(job) ==
    IF backend = "lt"
    THEN job.st.has_metadata /\ job.st.state \in {"seeding", "finished"}
    ELSE job.is_complete

\* C20: the snapshot a completed tick stores for a download that is paused
\* in the engine and not yet completed has status paused, and the one it
\* stores for a download that is not paused (never paused, or resumed) has
\* not.
C20_PauseVisibleAfterTick ==
    (lastOp.op = "tick" /\ lastOp.code = 0)
        => \A id \in (DOMAIN active_downloads) \ lastOp.skipped :
              LET ref == active_downloads[id].ref
                  info == active_downloads[id].info
              IN ref \in DOMAIN engine
                 => /\ (JobPaused(engine[ref]) /\ ~JobCompleted(engine[ref]))
                        => info.status = "paused"
                    /\ ~JobPaused(engine[ref]) => info.status # "paused"

\* C21: a send that never completes does not hold the poller: whenever the
\* poller is suspended in a send it gets back to its loop, where the next
\* tick starts and refreshes the cached statuses.
C21_StalledSendDoesNotBlock == (poller.pc = "sending") ~> (poller.pc = "sleep")

\* the removal calls among the engine calls of a step
Removals(calls) == {calls[k] : k \in {j \in 1..Len(calls) : calls[j].fn = "remove"}}

\* C22: a job leaves the engine only through a removal call of a cancel or
\* of a tick; every removal call of a cancel asks for the files to be
\* deleted (a successful cancel makes exactly one, for the entry's job), and
\* every removal call of a tick (the seeding cutoff) does not.
C22_DeleteFilesFlags ==
    [][/\ lastOp'.op = "cancel"
          => /\ \A c \in Removals(lastOp'.calls) : c.delete_files
             /\ lastOp'.code = 200
                  => lastOp'.calls =
                       <<[fn |-> "remove",
                          ref |-> active_downloads[lastOp'.id].ref,
                          delete_files |-> TRUE]>>
       /\ lastOp'.op = "tick"
          => \A c \in Removals(lastOp'.calls) : ~c.delete_files
       /\ (DOMAIN engine) \ (DOMAIN engine')
             = {c.ref : c \in Removals(lastOp'.calls)} \cap DOMAIN engine
       /\ (DOMAIN engine # DOMAIN engine' /\ DOMAIN engine' \subseteq DOMAIN engine)
          => lastOp'.op \in {"cancel", "tick"}]_vars

\* C22 witness: the seeding cutoff of a tick removed a job from the engine.
C22_Witness ==
    /\ lastOp.op = "tick"
    /\ Removals(lastOp.calls) # {}
    /\ \A c \in Removals(lastOp.calls) : c.ref \notin DOMAIN engine

\* the engine jobs the registry's entries refer to
RegistryRefs == {active_downloads[id].ref : id \in DOMAIN active_downloads}

\* C23: the live engine jobs and the registry entries are in one-to-one
\* correspondence: every job belongs to an entry, every entry to a job, and
\* no two entries to the same job.
C23_JobsMatchEntries ==
    /\ RegistryRefs = DOMAIN engine
    /\ \A i \in DOMAIN active_downloads : \A j \in DOMAIN active_downloads :
          active_downloads[i].ref = active_downloads[j].ref => i = j

\* C24: every snapshot of the batch a tick hands to the hub belongs to an id
\* that is in the registry at that moment.
C24_BatchIdsRegistered ==
    (lastOp.op = "tick" /\ lastOp.code = 0)
        => BatchIds(lastOp.batch) \subseteq DOMAIN active_downloads

\* C25: (qBittorrent backend) the snapshot a tick stores for a download the
\* mock engine has completed does not have status downloading.
C25_CompletedNotDownloading ==
    (backend = "qbit" /\ lastOp.op = "tick")
        => \A id \in (DOMAIN active_downloads) \ lastOp.skipped :
              LET ref == active_downloads[id].ref IN
              (ref \in DOMAIN engine /\ engine[ref].is_complete)
                  => active_downloads[id].info.status # "downloading"

====
